---- MODULE Spec2Model ----
(***************************************************************************)
(* Model of src/utils/dish_generator.py: generate_dishes_and_preferences   *)
(* (preference allocation, kitchen scan, shuffles, placement) followed by  *)
(* visualize_dishes_and_preferences.  Python indices are kept 0-based;     *)
(* TLA+ sequences are 1-based, so list element i is seq[i + 1].            *)
(***************************************************************************)
EXTENDS Integers, Sequences, FiniteSets, TLC

VARIABLES
    arrays,               \* array objects: "grid" (the caller's) and "copy"
    grid_orig,            \* content of the caller's grid at the call
    kitchen_rows,         \* rooms['K'][0], a slice [start, stop]
    kitchen_cols,         \* rooms['K'][1]
    people_positions,     \* list of (row, col)
    occupied_positions,   \* set of (row, col)
    num_people,
    person_preferences,   \* dict person_num -> label
    valid_kitchen_positions,
    grid_copy,            \* which array object grid_copy names ("none" before line 72)
    dish_positions,       \* list of (row, col, dish_type_name)
    dishes_to_place,      \* list of 'V' / 'N'
    i,                    \* loop index of the loop being run
    output,               \* print events so far
    pc

vars == <<arrays, grid_orig, kitchen_rows, kitchen_cols, people_positions,
          occupied_positions, num_people, person_preferences,
          valid_kitchen_positions, grid_copy, dish_positions, dishes_to_place,
          i, output, pc>>

(* ------------------------------ bounds -------------------------------- *)
MaxPeople == 3
MaxOccupied == 1
\* occupants in the runs that vary the allocation only
MaxPeopleAlloc == 6

(* ------------------------------ inputs -------------------------------- *)
\* House layout handed to the call: W wall, k counter, K kitchen floor.
Layouts ==
    { << <<"W", "K", "K">>,
         <<"k", "K", "K">> >> }

NumRows(g) == Len(g)
NumCols(g) == Len(g[1])
Cells(g) == (0 .. NumRows(g) - 1) \X (0 .. NumCols(g) - 1)

\* slice objects lying within an axis of length n
Slices(n) == { s \in [start : 0 .. n, stop : 0 .. n] : s.start <= s.stop }

\* people stand in a row; only the length of the list is read by the generator
PeopleList(n) == [k \in 1 .. n |-> <<0, k - 1>>]

OccupiedSets(g) == { s \in SUBSET Cells(g) : Cardinality(s) <= MaxOccupied }

(* ------------------------------ helpers ------------------------------- *)
preferences == {"vegan", "non-vegetarian"}

\* grid[row, col]
At(g, row, col) == g[row + 1][col + 1]

\* sum(1 for p in person_preferences.values() if p == label)
CountOf(prefs, label) ==
    Cardinality({ k \in DOMAIN prefs : prefs[k] = label })

\* variant: person_num = i
PersonNumZeroBased(idx) == idx

\* person_num = i + 1
PersonNum(idx) == idx + 1

\* variant: the first branch taken for every index (i < num_people)
PreferenceChoicesAllRandom(idx, n, prefs) ==
    IF idx < n
    THEN preferences
    ELSE IF CountOf(prefs, "vegan") = 0
         THEN {"vegan"}
         ELSE IF CountOf(prefs, "non-vegetarian") = 0
              THEN {"non-vegetarian"}
              ELSE preferences

\* variant: the two forcing tests in the other order
PreferenceChoicesNonVegFirst(idx, n, prefs) ==
    IF idx < n \div 2
    THEN preferences
    ELSE IF CountOf(prefs, "non-vegetarian") = 0
         THEN {"non-vegetarian"}
         ELSE IF CountOf(prefs, "vegan") = 0
              THEN {"vegan"}
              ELSE preferences

\* The labels line 41-53 can give to the person of index idx.
PreferenceChoices(idx, n, prefs) ==
    IF idx < n \div 2
    THEN preferences
    ELSE IF CountOf(prefs, "vegan") = 0
         THEN {"vegan"}
         ELSE IF CountOf(prefs, "non-vegetarian") = 0
              THEN {"non-vegetarian"}
              ELSE preferences

\* variant: the occupied-positions test left out
IsValidPositionIgnoringOccupied(g, occ, row, col) ==
    /\ At(g, row, col) \notin {"W", "d", "k", "F"}
    /\ At(g, row, col) = "K"

\* the condition of lines 60-62
IsValidPosition(g, occ, row, col) ==
    /\ <<row, col>> \notin occ
    /\ At(g, row, col) \notin {"W", "d", "k", "F"}
    /\ At(g, row, col) = "K"

RECURSIVE ScanCols(_, _, _, _, _)
ScanCols(g, occ, row, col, stop) ==
    IF col >= stop
    THEN << >>
    ELSE (IF IsValidPosition(g, occ, row, col) THEN << <<row, col>> >> ELSE << >>)
         \o ScanCols(g, occ, row, col + 1, stop)

RECURSIVE ScanRows(_, _, _, _, _)
ScanRows(g, occ, row, rows, cols) ==
    IF row >= rows.stop
    THEN << >>
    ELSE ScanCols(g, occ, row, cols.start, cols.stop)
         \o ScanRows(g, occ, row + 1, rows, cols)

\* lines 56-63: row-major scan of the kitchen slice
ValidKitchenPositions(g, occ, rows, cols) ==
    ScanRows(g, occ, rows.start, rows, cols)

\* variant: <= in place of <
NotEnoughSpaceInclusive(m, n) == m <= n

\* len(valid_kitchen_positions) < num_people
NotEnoughSpace(m, n) == m < n

\* variant: grid_copy = grid, no copy made
NumpyAlias(ref) == ref

\* grid.copy(): a new array object
NumpyCopy(ref) == "copy"

\* variant: positions drawn with replacement (random.choices)
DrawnWithReplacement(s) ==
    { [k \in 1 .. Len(s) |-> s[p[k]]] : p \in [1 .. Len(s) -> 1 .. Len(s)] }

\* random.shuffle(s): every rearrangement of s
Shuffles(s) ==
    { [k \in 1 .. Len(s) |-> s[p[k]]] : p \in Permutations(1 .. Len(s)) }

Repeat(x, n) == [k \in 1 .. n |-> x]

\* (['V'] * vegan_count) + (['N'] * non_veg_count)
DishesToPlace(prefs) ==
    Repeat("V", CountOf(prefs, "vegan")) \o Repeat("N", CountOf(prefs, "non-vegetarian"))

\* variant: the last position never used
HasPositionButLast(idx, positions) == idx + 1 < Len(positions)

\* variant: <= in place of <
HasPositionInclusive(idx, positions) == idx <= Len(positions)

\* i < len(valid_kitchen_positions)
HasPosition(idx, positions) == idx < Len(positions)

\* variant: the two names exchanged
DishTypeNameSwapped(dish_type) == IF dish_type = "V" THEN "non-vegetarian" ELSE "vegan"

\* 'vegan' if dish_type == 'V' else 'non-vegetarian'
DishTypeName(dish_type) == IF dish_type = "V" THEN "vegan" ELSE "non-vegetarian"

PrintEvent(fn, line, args) == [fn |-> fn, line |-> line, args |-> args]

(* ------------------------------- Init --------------------------------- *)
\* the state at the call, the locals not yet assigned
Entry ==
    /\ arrays = [grid |-> grid_orig, copy |-> << >>]
    /\ num_people = Len(people_positions)
    /\ person_preferences = << >>
    /\ valid_kitchen_positions = << >>
    /\ grid_copy = "none"
    /\ dish_positions = << >>
    /\ dishes_to_place = << >>
    /\ i = 0
    /\ output = << >>
    /\ pc = "assign"

Init ==
    /\ grid_orig \in Layouts
    /\ kitchen_rows \in Slices(NumRows(grid_orig))
    /\ kitchen_cols \in Slices(NumCols(grid_orig))
    /\ people_positions \in { PeopleList(n) : n \in 0 .. MaxPeople }
    /\ occupied_positions \in OccupiedSets(grid_orig)
    /\ Entry

\* calls that vary the number of occupants only: the kitchen slice is the
\* top row, nothing is occupied
InitAlloc ==
    /\ grid_orig \in Layouts
    /\ kitchen_rows = [start |-> 0, stop |-> 1]
    /\ kitchen_cols = [start |-> 0, stop |-> NumCols(grid_orig)]
    /\ people_positions \in { PeopleList(n) : n \in 0 .. MaxPeopleAlloc }
    /\ occupied_positions = {}
    /\ Entry

inputs == <<grid_orig, kitchen_rows, kitchen_cols, people_positions,
            occupied_positions, num_people>>

(* ------------------------------ actions ------------------------------- *)
\* lines 38-53, one iteration
AssignPreference ==
    /\ pc = "assign"
    /\ i < num_people
    /\ \E label \in PreferenceChoices(i, num_people, person_preferences) :
           person_preferences' = person_preferences @@ (PersonNum(i) :> label)
    /\ i' = i + 1
    /\ UNCHANGED <<arrays, inputs, valid_kitchen_positions, grid_copy,
                   dish_positions, dishes_to_place, output, pc>>

\* lines 56-63, entered when the allocation loop is exhausted
ScanKitchen ==
    /\ pc = "assign"
    /\ i >= num_people
    /\ valid_kitchen_positions' =
           ValidKitchenPositions(arrays["grid"], occupied_positions,
                                 kitchen_rows, kitchen_cols)
    /\ pc' = "check"
    /\ UNCHANGED <<arrays, inputs, person_preferences, grid_copy,
                   dish_positions, dishes_to_place, i, output>>

\* lines 66-68
CheckSpace ==
    /\ pc = "check"
    /\ output' =
           IF NotEnoughSpace(Len(valid_kitchen_positions), num_people)
           THEN output \o << PrintEvent("generate", 67,
                                   <<Len(valid_kitchen_positions), num_people>>),
                             PrintEvent("generate", 68, << >>) >>
           ELSE output
    /\ pc' = "copy"
    /\ UNCHANGED <<arrays, inputs, person_preferences, valid_kitchen_positions,
                   grid_copy, dish_positions, dishes_to_place, i>>

\* lines 71-75
CopyAndShuffle ==
    /\ pc = "copy"
    /\ dish_positions' = << >>
    /\ grid_copy' = NumpyCopy("grid")
    /\ arrays' = [arrays EXCEPT ![NumpyCopy("grid")] = arrays["grid"]]
    /\ valid_kitchen_positions' \in Shuffles(valid_kitchen_positions)
    /\ pc' = "dishes"
    /\ UNCHANGED <<inputs, person_preferences, dishes_to_place, i, output>>

\* lines 78-82
CreateDishes ==
    /\ pc = "dishes"
    /\ dishes_to_place' \in Shuffles(DishesToPlace(person_preferences))
    /\ i' = 0
    /\ pc' = "place"
    /\ UNCHANGED <<arrays, inputs, person_preferences, valid_kitchen_positions,
                   grid_copy, dish_positions, output>>

\* lines 85-92, one iteration
PlaceDish ==
    /\ pc = "place"
    /\ i < Len(dishes_to_place)
    /\ LET dish_type == dishes_to_place[i + 1] IN
       IF HasPosition(i, valid_kitchen_positions)
       THEN IF i + 1 \in DOMAIN valid_kitchen_positions
            THEN LET row == valid_kitchen_positions[i + 1][1]
                     col == valid_kitchen_positions[i + 1][2]
                 IN /\ arrays' = [arrays EXCEPT
                                     ![grid_copy][row + 1][col + 1] = dish_type]
                    /\ dish_positions' =
                           Append(dish_positions, <<row, col, DishTypeName(dish_type)>>)
                    /\ i' = i + 1
                    /\ UNCHANGED <<output, pc>>
            ELSE \* IndexError at line 87
                 /\ pc' = "raised"
                 /\ UNCHANGED <<arrays, dish_positions, i, output>>
       ELSE /\ output' = Append(output, PrintEvent("generate", 92, <<i + 1>>))
            /\ i' = i + 1
            /\ UNCHANGED <<arrays, dish_positions, pc>>
    /\ UNCHANGED <<inputs, person_preferences, valid_kitchen_positions,
                   grid_copy, dishes_to_place>>

\* line 94
Return ==
    /\ pc = "place"
    /\ i >= Len(dishes_to_place)
    /\ pc' = "returned"
    /\ UNCHANGED <<arrays, inputs, person_preferences, valid_kitchen_positions,
                   grid_copy, dish_positions, dishes_to_place, i, output>>

\* find_dishes_by_type
find_dishes_by_type(positions, dish_type) ==
    SelectSeq(positions, LAMBDA d : d[3] = dish_type)

\* the people of get_dish_assignment_summary holding a label, in key order
PeopleWith(prefs, label) ==
    SelectSeq([k \in 1 .. Cardinality(DOMAIN prefs) |-> k],
              LAMBDA k : k \in DOMAIN prefs /\ prefs[k] = label)

\* get_dish_assignment_summary
get_dish_assignment_summary(prefs, positions) ==
    [ total_people |-> Cardinality(DOMAIN prefs),
      vegan_people |-> PeopleWith(prefs, "vegan"),
      non_vegetarian_people |-> PeopleWith(prefs, "non-vegetarian"),
      vegan_people_count |-> Len(PeopleWith(prefs, "vegan")),
      non_vegetarian_people_count |-> Len(PeopleWith(prefs, "non-vegetarian")),
      vegan_dishes_count |-> Len(find_dishes_by_type(positions, "vegan")),
      non_vegetarian_dishes_count |->
          Len(find_dishes_by_type(positions, "non-vegetarian")) ]

\* zip(person_preferences.items(), dish_positions): stops at the shorter one
ZipLength(prefs, positions) ==
    IF Cardinality(DOMAIN prefs) < Len(positions)
    THEN Cardinality(DOMAIN prefs)
    ELSE Len(positions)

\* lines 162-176, called by the orchestrator with what the generator returned
Visualize ==
    /\ pc = "returned"
    /\ LET summary == get_dish_assignment_summary(person_preferences, dish_positions)
       IN output' =
              output
              \o << PrintEvent("visualize", 162, << >>),
                    PrintEvent("visualize", 163, << >>),
                    PrintEvent("visualize", 164, << >>),
                    PrintEvent("visualize", 168, <<summary.total_people>>),
                    PrintEvent("visualize", 169, <<summary.vegan_people_count>>),
                    PrintEvent("visualize", 170,
                               <<summary.non_vegetarian_people_count>>),
                    PrintEvent("visualize", 173, << >>) >>
              \o [k \in 1 .. ZipLength(person_preferences, dish_positions) |->
                     PrintEvent("visualize", 176,
                                <<k, dish_positions[k][1], dish_positions[k][2]>>)]
    /\ pc' = "reported"
    /\ UNCHANGED <<arrays, inputs, person_preferences, valid_kitchen_positions,
                   grid_copy, dish_positions, dishes_to_place, i>>

Next ==
    \/ AssignPreference
    \/ ScanKitchen
    \/ CheckSpace
    \/ CopyAndShuffle
    \/ CreateDishes
    \/ PlaceDish
    \/ Return
    \/ Visualize

Spec == Init /\ [][Next]_vars

SpecAlloc == InitAlloc /\ [][Next]_vars

(* ----------------------- vocabulary of the claims ---------------------- *)
\* generate_dishes_and_preferences has returned its three results
Returned == pc \in {"returned", "reported"}

\* the grid the call returned
ReturnedGrid == arrays[grid_copy]

InKitchen(row, col) ==
    /\ kitchen_rows.start <= row /\ row < kitchen_rows.stop
    /\ kitchen_cols.start <= col /\ col < kitchen_cols.stop

\* the eligible cells of the call's inputs, stated without the scan
EligibleCells ==
    { c \in Cells(grid_orig) :
        /\ InKitchen(c[1], c[2])
        /\ c \notin occupied_positions
        /\ At(grid_orig, c[1], c[2]) = "K" }

M == Cardinality(EligibleCells)

Min(a, b) == IF a < b THEN a ELSE b

PlacedCount(label) == Len(find_dishes_by_type(dish_positions, label))

GenerateEvents == SelectSeq(output, LAMBDA e : e.fn = "generate")

\* number of eligible cells the scan found
MFound == Len(valid_kitchen_positions)

Coord(d) == <<d[1], d[2]>>

(* ------------------------------- claims -------------------------------- *)

\* C1: for N >= 2 the returned preference map holds at least one 'vegan'
\* and at least one 'non-vegetarian' entry, whatever the random choices.
C1_BothLabelsPresent ==
    (Returned /\ num_people >= 2) =>
        /\ CountOf(person_preferences, "vegan") >= 1
        /\ CountOf(person_preferences, "non-vegetarian") >= 1

\* N = 5, the random first half gave 'non-vegetarian' twice, person 3 was forced
C1_Witness ==
    /\ Returned
    /\ num_people = 5
    /\ person_preferences[1] = "non-vegetarian"
    /\ person_preferences[2] = "non-vegetarian"
    /\ person_preferences[3] = "vegan"

\* C2: every placed coordinate lies inside the kitchen slice, is not in the
\* occupied set passed in, and was 'K' in the input grid.
C2_PlacedCellsEligible ==
    Returned =>
        \A k \in 1 .. Len(dish_positions) :
            /\ InKitchen(dish_positions[k][1], dish_positions[k][2])
            /\ Coord(dish_positions[k]) \notin occupied_positions
            /\ Coord(dish_positions[k]) \in Cells(grid_orig)
            /\ At(grid_orig, dish_positions[k][1], dish_positions[k][2]) = "K"

\* a dish was placed although the kitchen slice held an occupied floor cell,
\* a non-floor cell, and floor lay outside the slice
C2_Witness ==
    /\ Returned
    /\ Len(dish_positions) >= 1
    /\ \E c \in occupied_positions :
           InKitchen(c[1], c[2]) /\ At(grid_orig, c[1], c[2]) = "K"
    /\ \E c \in Cells(grid_orig) :
           InKitchen(c[1], c[2]) /\ At(grid_orig, c[1], c[2]) # "K"
    /\ \E c \in Cells(grid_orig) :
           ~InKitchen(c[1], c[2]) /\ At(grid_orig, c[1], c[2]) = "K"

\* C3: the returned placement list has length min(M, N), M being the number
\* of eligible cells the scan found (which is the number of eligible cells).
C3_LengthIsMin ==
    Returned =>
        /\ MFound = M
        /\ Len(dish_positions) = Min(MFound, num_people)

\* fewer cells than people, and the list has the cells' length
C3_Witness ==
    /\ Returned
    /\ MFound = 2
    /\ num_people = 3
    /\ Len(dish_positions) = 2

\* C4: the coordinates of the returned placement list are pairwise distinct.
C4_CoordinatesDistinct ==
    Returned =>
        \A j, k \in 1 .. Len(dish_positions) :
            j # k => Coord(dish_positions[j]) # Coord(dish_positions[k])

\* several dishes placed with fewer cells than occupants
C4_Witness ==
    /\ Returned
    /\ MFound < num_people
    /\ Len(dish_positions) >= 2

\* C5: after the return the input grid is unchanged, and the returned grid
\* equals it everywhere but at the placed coordinates, which hold 'V' for a
\* 'vegan' entry and 'N' for a 'non-vegetarian' one.
C5_OnlyPlacedCellsDiffer ==
    Returned =>
        /\ arrays["grid"] = grid_orig
        /\ NumRows(ReturnedGrid) = NumRows(grid_orig)
        /\ \A r \in 1 .. NumRows(grid_orig) :
               Len(ReturnedGrid[r]) = Len(grid_orig[r])
        /\ \A c \in Cells(grid_orig) :
               LET hits == { k \in 1 .. Len(dish_positions) :
                                 Coord(dish_positions[k]) = c }
               IN IF hits = {}
                  THEN At(ReturnedGrid, c[1], c[2]) = At(grid_orig, c[1], c[2])
                  ELSE \A k \in hits :
                           \/ /\ dish_positions[k][3] = "vegan"
                              /\ At(ReturnedGrid, c[1], c[2]) = "V"
                           \/ /\ dish_positions[k][3] = "non-vegetarian"
                              /\ At(ReturnedGrid, c[1], c[2]) = "N"

\* both kinds of dish were written into the returned grid
C5_Witness ==
    /\ Returned
    /\ PlacedCount("vegan") >= 1
    /\ PlacedCount("non-vegetarian") >= 1
    /\ ReturnedGrid # grid_orig

\* C6: the placed 'vegan' entries are at most the 'vegan' preferences, and
\* as many when the eligible cells are at least the occupants.
C6_VeganCounts ==
    Returned =>
        /\ PlacedCount("vegan") <= CountOf(person_preferences, "vegan")
        /\ (MFound >= num_people =>
                PlacedCount("vegan") = CountOf(person_preferences, "vegan"))

\* too few cells, and a vegan dish stayed unplaced
C6_Witness ==
    /\ Returned
    /\ MFound < num_people
    /\ PlacedCount("vegan") >= 1
    /\ PlacedCount("vegan") < CountOf(person_preferences, "vegan")

\* C7: no error is raised; with M < N the call returns with the two warning
\* lines followed by one notice for each item of index M .. N-1 and a
\* placement list of length M; with M >= N it prints nothing.
C7_DegradesWithoutError ==
    /\ pc # "raised"
    /\ Returned =>
           IF M < num_people
           THEN /\ GenerateEvents =
                       << PrintEvent("generate", 67, <<M, num_people>>),
                          PrintEvent("generate", 68, << >>) >>
                       \o [k \in 1 .. num_people - M |->
                              PrintEvent("generate", 92, <<M + k>>)]
                /\ Len(dish_positions) = M
           ELSE GenerateEvents = << >>

\* some cells, and at least two people more than cells
C7_Witness ==
    /\ Returned
    /\ M >= 1
    /\ num_people >= M + 2

\* C8: the returned preference map has the keys 1 .. N exactly, each with one
\* of the two labels.
C8_KeysAndLabels ==
    Returned =>
        /\ DOMAIN person_preferences = 1 .. num_people
        /\ \A k \in DOMAIN person_preferences :
               person_preferences[k] \in {"vegan", "non-vegetarian"}

\* three occupants, keys 1, 2, 3
C8_Witness ==
    /\ Returned
    /\ num_people = 3
    /\ DOMAIN person_preferences = {1, 2, 3}

\* C9 as stated: with N = 1 both labels are possible results for person 1.
C9_BothLabelsPossible ==
    (pc = "assign" /\ num_people = 1 /\ i = 0) =>
        /\ ENABLED (AssignPreference /\ person_preferences'[1] = "vegan")
        /\ ENABLED (AssignPreference /\ person_preferences'[1] = "non-vegetarian")

\* C9 amended: with N = 1 person 1 is always given 'vegan' (index 0 is not
\* below 1 // 2 = 0, and the vegan count is zero, so 'vegan' is forced).
C9_SinglePersonVegan ==
    (num_people = 1 /\ 1 \in DOMAIN person_preferences) =>
        person_preferences[1] = "vegan"

\* one occupant, allocated and returned
C9_Witness ==
    /\ Returned
    /\ num_people = 1
    /\ person_preferences[1] = "vegan"

\* C10 as stated: nothing is printed before the three results are complete.
C10_NoOutputBeforeReturn ==
    ~Returned => output = << >>

\* C10 amended: the generator prints nothing when M >= N; when M < N the two
\* warning lines are printed before the grid copy and the placement list
\* exist, and the notices during the placement loop; the reporting function
\* prints only after the generator has returned, after all of its output.
C10_OutputOnlyWhenShort ==
    /\ M >= num_people => GenerateEvents = << >>
    /\ (M < num_people /\ pc \notin {"assign", "check"}) =>
           /\ Len(output) >= 2
           /\ output[1].fn = "generate" /\ output[1].line = 67
           /\ output[2].fn = "generate" /\ output[2].line = 68
    /\ \A k \in 1 .. Len(output) :
           output[k].fn = "visualize" =>
               /\ pc = "reported"
               /\ \A j \in k .. Len(output) : output[j].fn = "visualize"

\* the warning is out while the grid copy is not yet made
C10_Witness ==
    /\ pc = "copy"
    /\ grid_copy = "none"
    /\ Len(output) = 2

====
